---------------------------- MODULE Spec2Model ----------------------------
(***************************************************************************)
(* Model of the salient-task inference and example-sequencing engine of    *)
(* task_ambiguity: Prompt construction (src/src/structures/prompt.py) on   *)
(* top of the example generators (src/src/example_generation.py).          *)
(*                                                                         *)
(* An Example is modelled by its three boolean labels, its salient_task    *)
(* tag and, instead of the sampled words, the value pools (category        *)
(* labels) its two slots were sampled from.  Python's None is the string   *)
(* "None"; an attribute that was never assigned is "unset".                *)
(*                                                                         *)
(* ConstructionType.PROPN is used by prompt.py:233, by                     *)
(* example_generation.py:167,475 and by instruction.py:266 although        *)
(* construction_types.py declares PROPER_NOUN only.  The model follows the *)
(* use sites and treats PROPN ("propn") as a further member.               *)
(***************************************************************************)
EXTENDS Naturals, Sequences, FiniteSets, TLC

VARIABLES
    pc,                         \* position inside Prompt.__init__
    shots,                      \* self.shots
    construction_type,          \* self.construction_type
    args,                       \* the other constructor arguments
    examples,                   \* self.examples
    current_examples,           \* the local list of the same Example objects
    salient_category,           \* self.salient_category (a category label)
    salient_task_key,           \* the (feature, polarity) key that was resolved
    instruction_text,           \* self.instruction_text
    examples_label_randomizer,  \* local of make_examples_without_salient_type
    examples_order_randomizer,  \* local of make_examples_without_salient_type
    salient_task_label,         \* local of make_given_distribution_examples
    active_task_label,          \* local of make_given_distribution_examples
    salient_task,               \* local of make_given_distribution_examples
    randomize_tasks,            \* local of make_given_distribution_examples
    raised,                     \* the exception that ended construction
    call                        \* a direct call of one method (SpecCalls)

vars == <<pc, shots, construction_type, args, examples, current_examples,
          salient_category, salient_task_key, instruction_text,
          examples_label_randomizer, examples_order_randomizer,
          salient_task_label, active_task_label, salient_task,
          randomize_tasks, raised, call>>

-----------------------------------------------------------------------------
(* Bounds and input domains *)

MaxShots == 3

ShotsValues == 1..MaxShots

ProbValues == {0, 50, 100}

-----------------------------------------------------------------------------
(* Construction types and categories *)

ConstructionType ==
    {"subject_location", "propn_negation", "religious_pronoun", "location",
     "subject", "negation", "pronoun", "religious", "proper_noun", "propn"}

None == "None"

SubjectLocationFamily == {"location", "subject", "subject_location"}

ProperNounNegationFamily == {"propn", "negation", "propn_negation"}

ReligiousPronounFamily == {"religious", "pronoun", "religious_pronoun"}

\* a factory whose family lists are mixed up
get_generator_from_construction_type_mixed(ct) ==
    IF ct \in {"location", "subject"} THEN "SubjectLocationGenerator"
    ELSE IF ct \in ProperNounNegationFamily \cup {"subject_location"}
         THEN "ProperNounNegationGenerator"
    ELSE IF ct \in ReligiousPronounFamily THEN "ReligiousPronounGenerator"
    ELSE "ValueError"

get_generator_from_construction_type(ct) ==
    IF ct \in SubjectLocationFamily THEN "SubjectLocationGenerator"
    ELSE IF ct \in ProperNounNegationFamily THEN "ProperNounNegationGenerator"
    ELSE IF ct \in ReligiousPronounFamily THEN "ReligiousPronounGenerator"
    ELSE "ValueError"

get_instruction_from_construction_type(ct) ==
    IF ct \in SubjectLocationFamily THEN "SubjectLocationInstruction"
    ELSE IF ct \in ProperNounNegationFamily THEN "PropNNegationInstruction"
    ELSE IF ct \in ReligiousPronounFamily THEN "ReligiousPronounInstruction"
    ELSE "ValueError"

Generators ==
    {"SubjectLocationGenerator", "ProperNounNegationGenerator",
     "ReligiousPronounGenerator"}

CategoryParent ==
    [c \in {"urban_location", "natural_location", "human_subject",
            "animal_subject", "religious_leader", "secular_leader",
            "female_pronoun", "male_pronoun", "proper_noun", "negation",
            "affirmation"} |->
        CASE c \in {"urban_location", "natural_location"} -> "location"
          [] c \in {"human_subject", "animal_subject"} -> "subject"
          [] c \in {"religious_leader", "secular_leader"} -> "religious"
          [] c \in {"female_pronoun", "male_pronoun"} -> "pronoun"
          [] c = "proper_noun" -> "propn"
          [] c \in {"negation", "affirmation"} -> "negation"]

TaskKeys == {"task_a", "task_b"} \X BOOLEAN

\* maps whose pronoun entries follow the order of the other generators'
\* entries instead of the pools generate_example draws from
salient_cat_map_swapped(gen) ==
    CASE gen = "SubjectLocationGenerator" ->
            [k \in TaskKeys |->
                IF k = <<"task_a", TRUE>> THEN "human_subject"
                ELSE IF k = <<"task_a", FALSE>> THEN "animal_subject"
                ELSE IF k = <<"task_b", TRUE>> THEN "urban_location"
                ELSE "natural_location"]
      [] gen = "ReligiousPronounGenerator" ->
            [k \in TaskKeys |->
                IF k = <<"task_a", TRUE>> THEN "religious_leader"
                ELSE IF k = <<"task_a", FALSE>> THEN "secular_leader"
                ELSE IF k = <<"task_b", TRUE>> THEN "female_pronoun"
                ELSE "male_pronoun"]
      [] gen = "ProperNounNegationGenerator" ->
            [k \in TaskKeys |->
                IF k = <<"task_a", TRUE>> THEN "proper_noun"
                ELSE IF k = <<"task_a", FALSE>> THEN "human_subject"
                ELSE IF k = <<"task_b", TRUE>> THEN "affirmation"
                ELSE "negation"]

salient_cat_map(gen) ==
    CASE gen = "SubjectLocationGenerator" ->
            [k \in TaskKeys |->
                IF k = <<"task_a", TRUE>> THEN "human_subject"
                ELSE IF k = <<"task_a", FALSE>> THEN "animal_subject"
                ELSE IF k = <<"task_b", TRUE>> THEN "urban_location"
                ELSE "natural_location"]
      [] gen = "ReligiousPronounGenerator" ->
            [k \in TaskKeys |->
                IF k = <<"task_a", TRUE>> THEN "religious_leader"
                ELSE IF k = <<"task_a", FALSE>> THEN "secular_leader"
                ELSE IF k = <<"task_b", TRUE>> THEN "male_pronoun"
                ELSE "female_pronoun"]
      [] gen = "ProperNounNegationGenerator" ->
            [k \in TaskKeys |->
                IF k = <<"task_a", TRUE>> THEN "proper_noun"
                ELSE IF k = <<"task_a", FALSE>> THEN "human_subject"
                ELSE IF k = <<"task_b", TRUE>> THEN "affirmation"
                ELSE "negation"]

\* a lookup that answers None for a key it does not hold
get_salient_category_from_task_key_get(gen, task_key) ==
    IF task_key \in DOMAIN salient_cat_map(gen)
    THEN salient_cat_map(gen)[task_key]
    ELSE None

get_salient_category_from_task_key(gen, task_key) ==
    IF task_key \in DOMAIN salient_cat_map(gen)
    THEN salient_cat_map(gen)[task_key]
    ELSE "KeyError"

-----------------------------------------------------------------------------
(* Example generation *)

generate_example(gen, task_a_label, task_b_label, active_label, sal) ==
    [task_a_label |-> task_a_label,
     task_b_label |-> task_b_label,
     active_task_label |-> active_label,
     salient_task |-> sal,
     choice_a |->
        CASE gen = "SubjectLocationGenerator" ->
                IF task_a_label THEN "human_subject" ELSE "animal_subject"
          [] gen = "ReligiousPronounGenerator" ->
                IF task_a_label THEN "religious_leader" ELSE "secular_leader"
          [] gen = "ProperNounNegationGenerator" ->
                IF task_a_label THEN "proper_noun" ELSE "human_subject",
     choice_b |->
        CASE gen = "SubjectLocationGenerator" ->
                IF task_b_label THEN "urban_location" ELSE "natural_location"
          [] gen = "ReligiousPronounGenerator" ->
                IF task_b_label THEN "male_pronoun" ELSE "female_pronoun"
          [] gen = "ProperNounNegationGenerator" ->
                IF task_b_label THEN "affirmation" ELSE "negation"]

\* a mirror that forgets to negate the active label
generate_example_given_salient_partial(gen, test_example, mirror_example) ==
    IF mirror_example
    THEN generate_example(gen, test_example.task_a_label,
                          test_example.task_b_label,
                          test_example.active_task_label,
                          test_example.salient_task)
    ELSE generate_example(gen, ~test_example.task_a_label,
                          ~test_example.task_b_label,
                          test_example.active_task_label,
                          test_example.salient_task)

generate_example_given_salient(gen, test_example, mirror_example) ==
    IF mirror_example
    THEN generate_example(gen, test_example.task_a_label,
                          test_example.task_b_label,
                          test_example.active_task_label,
                          test_example.salient_task)
    ELSE generate_example(gen, ~test_example.task_a_label,
                          ~test_example.task_b_label,
                          ~test_example.active_task_label,
                          test_example.salient_task)

-----------------------------------------------------------------------------
(* Salient-task resolver *)

\* the outcome of a failed assert, in place of a returned key
AssertionError == <<"AssertionError">>

\* the outcome of an index past the end of a list
IndexError == <<"IndexError">>

\* a resolver whose assert admits two examples
obtain_salient_task_key_short_assert(exs) ==
    IF Len(exs) < 2 THEN AssertionError
    ELSE IF Len(exs) < 3 THEN IndexError
    ELSE
    LET salient_example ==
            IF exs[3].active_task_label = exs[1].active_task_label
            THEN exs[1] ELSE exs[2]
        query == exs[3]
    IN  IF query.task_a_label = salient_example.task_a_label
        THEN <<"task_a", IF query.active_task_label THEN query.task_a_label
                         ELSE ~query.task_a_label>>
        ELSE <<"task_b", IF query.active_task_label THEN query.task_b_label
                         ELSE ~query.task_b_label>>

\* a resolver that reports the query's own label whatever its active label
obtain_salient_task_key_unnegated(exs) ==
    IF Len(exs) < 3 THEN AssertionError
    ELSE
    LET first_example == exs[1]
        second_example == exs[2]
        query == exs[3]
        salient_example ==
            IF query.active_task_label = first_example.active_task_label
            THEN first_example ELSE second_example
    IN  IF query.task_a_label = salient_example.task_a_label
        THEN <<"task_a", query.task_a_label>>
        ELSE <<"task_b", query.task_b_label>>

\* a resolver that always anchors on the first example
obtain_salient_task_key_first_anchor(exs) ==
    IF Len(exs) < 3 THEN AssertionError
    ELSE
    LET salient_example == exs[1]
        query == exs[3]
    IN  IF query.active_task_label
        THEN IF query.task_a_label = salient_example.task_a_label
             THEN <<"task_a", query.task_a_label>>
             ELSE <<"task_b", query.task_b_label>>
        ELSE IF query.task_a_label = salient_example.task_a_label
             THEN <<"task_a", ~query.task_a_label>>
             ELSE <<"task_b", ~query.task_b_label>>

obtain_salient_task_key(exs) ==
    IF Len(exs) < 3 THEN AssertionError
    ELSE
    LET first_example == exs[1]
        second_example == exs[2]
        query == exs[3]
        salient_example ==
            IF query.active_task_label = first_example.active_task_label
            THEN first_example ELSE second_example
    IN  IF query.active_task_label
        THEN IF query.task_a_label = salient_example.task_a_label
             THEN IF query.task_a_label
                  THEN <<"task_a", TRUE>> ELSE <<"task_a", FALSE>>
             ELSE IF query.task_b_label
                  THEN <<"task_b", TRUE>> ELSE <<"task_b", FALSE>>
        ELSE IF query.task_a_label = salient_example.task_a_label
             THEN IF query.task_a_label
                  THEN <<"task_a", FALSE>> ELSE <<"task_a", TRUE>>
             ELSE IF query.task_b_label
                  THEN <<"task_b", FALSE>> ELSE <<"task_b", TRUE>>

\* the resolver without the random choice: a None salient task stays None
create_salient_task_key_no_choice(exs, sal_task, choice) ==
    LET query == exs[Len(exs)]
        key_task_label ==
            IF sal_task = "task_a" THEN query.task_a_label ELSE query.task_b_label
    IN  IF query.active_task_label
        THEN <<sal_task, key_task_label>>
        ELSE <<sal_task, ~key_task_label>>

\* a resolver that draws the feature even when one is given
create_salient_task_key_always_random(exs, sal_task, choice) ==
    LET query == exs[Len(exs)]
        key_task_label ==
            IF choice = "task_a" THEN query.task_a_label ELSE query.task_b_label
    IN  IF query.active_task_label
        THEN <<choice, key_task_label>>
        ELSE <<choice, ~key_task_label>>

\* choice is the outcome of random.choice(["task_a", "task_b"]), which is
\* drawn only when the salient task is None
create_salient_task_key(exs, sal_task, choice) ==
    LET query == exs[Len(exs)]
        task == IF sal_task = None THEN choice ELSE sal_task
        key_task_label ==
            IF task = "task_a" THEN query.task_a_label ELSE query.task_b_label
    IN  IF query.active_task_label
        THEN <<task, key_task_label>>
        ELSE <<task, ~key_task_label>>

\* lines 449-454 of get_salient_category_from_example_set: the key it looks up
salient_task_key_of(exs, include_ambiguous, task_a_or_b, choice) ==
    IF include_ambiguous
    THEN obtain_salient_task_key(exs)
    ELSE create_salient_task_key(exs, task_a_or_b, choice)

get_salient_category_from_example_set(gen, exs, include_ambiguous, task_a_or_b, choice) ==
    LET key == salient_task_key_of(exs, include_ambiguous, task_a_or_b, choice)
    IN  IF key = AssertionError THEN "AssertionError"
        ELSE get_salient_category_from_task_key(gen, key)

\* a stamping loop that stops one example short
set_salient_task_cur_examples_short(salient_type, exs) ==
    [i \in 1..Len(exs) |->
        IF i < Len(exs) THEN [exs[i] EXCEPT !.salient_task = salient_type]
        ELSE exs[i]]

set_salient_task_cur_examples(salient_type, exs) ==
    [i \in 1..Len(exs) |-> [exs[i] EXCEPT !.salient_task = salient_type]]

generate_instruction(category, needs_informative) ==
    IF needs_informative
    THEN [kind |-> "informative", category |-> category]
    ELSE [kind |-> "uninformative", category |-> "withheld"]

-----------------------------------------------------------------------------
(* Multiple-choice distractors *)

\* GenerationCategories.label_list(): the labels in the enum's order
label_list ==
    <<"urban_location", "natural_location", "human_subject", "animal_subject",
      "religious_leader", "secular_leader", "proper_noun", "negation",
      "affirmation", "female_pronoun", "male_pronoun">>

\* list.remove(x): drops the first occurrence of x
list_remove(s, x) ==
    LET i == CHOOSE k \in 1..Len(s) : s[k] = x /\ \A j \in 1..(k - 1) : s[j] # x
    IN  SubSeq(s, 1, i - 1) \o SubSeq(s, i + 1, Len(s))

ShuffleOrders(n) ==
    {p \in [1..n -> 1..n] : \A i, j \in 1..n : p[i] = p[j] => i = j}

\* the draws random.choices may make for an option count
ChoicesDraws(num_options) ==
    [1..(num_options - 1) -> 1..(Len(label_list) - 1)]

\* distractors sampled from the whole catalog, the salient label included
generate_multiple_choice_categories_keep(salient, num_options, draws, perm) ==
    IF salient \in {"unset", None}
    THEN [raised |-> "AttributeError", ret |-> <<>>]
    ELSE
    LET sampled_cats ==
            Append([i \in 1..(num_options - 1) |-> label_list[draws[i]]], salient)
        shuffled == [i \in 1..Len(sampled_cats) |-> sampled_cats[perm[i]]]
    IN  [raised |-> "none",
         ret |-> [i \in 1..num_options |-> [number |-> i, label |-> shuffled[i]]]]

\* the method without its guard on an unresolved salient category
generate_multiple_choice_categories_unguarded(salient, num_options, draws, perm) ==
    LET candidate_cats == SelectSeq(label_list, LAMBDA c : c # salient)
        sampled_cats ==
            Append([i \in 1..(num_options - 1) |-> candidate_cats[draws[i]]], salient)
        shuffled == [i \in 1..Len(sampled_cats) |-> sampled_cats[perm[i]]]
    IN  [raised |-> "none",
         ret |-> [i \in 1..num_options |-> [number |-> i, label |-> shuffled[i]]]]

\* draws are the indices random.choices picks in candidate_cats, perm the
\* order random.shuffle leaves; ret is the returned text, one numbered line
\* per element.  Reading a salient_category that was never assigned raises
\* AttributeError as the explicit raise for None does.
generate_multiple_choice_categories(salient, num_options, draws, perm) ==
    IF salient \in {"unset", None}
    THEN [raised |-> "AttributeError", ret |-> <<>>]
    ELSE
    LET candidate_cats == list_remove(label_list, salient)
        sampled_cats ==
            Append([i \in 1..(num_options - 1) |-> candidate_cats[draws[i]]], salient)
        shuffled == [i \in 1..Len(sampled_cats) |-> sampled_cats[perm[i]]]
    IN  [raised |-> "none",
         ret |-> [i \in 1..num_options |-> [number |-> i, label |-> shuffled[i]]]]

-----------------------------------------------------------------------------
(* Prompt construction *)

\* The explicit targets offered with a construction type: the members of
\* its own family (the dataset driver passes the construction type itself).
SalientTypesFor(ct) ==
    {None} \cup
    (IF ct \in SubjectLocationFamily THEN SubjectLocationFamily
     ELSE IF ct \in ProperNounNegationFamily THEN ProperNounNegationFamily
     ELSE IF ct \in ReligiousPronounFamily THEN ReligiousPronounFamily
     ELSE {ct})

ArgsValues ==
    [needs_instruction : BOOLEAN,
     needs_informative : BOOLEAN,
     include_ambiguous_examples : BOOLEAN,
     prob_of_ambiguous : ProbValues,
     for_finetuning : BOOLEAN,
     finetuning_control : BOOLEAN,
     salient_type : ConstructionType \cup {None}]

NoCall == [fn |-> "none"]

NoInstruction == [kind |-> "unset", category |-> "unset"]

Directed == args.salient_type # None

generator_obj == get_generator_from_construction_type(construction_type)

\* a classification that takes the composite kinds for task_a features
possible_task_a_with_composites ==
    {"subject", "religious", "propn",
     "subject_location", "religious_pronoun", "propn_negation"}

possible_task_a == {"subject", "religious", "propn"}

possible_task_b == {"location", "pronoun", "negation"}

Init ==
    /\ pc = "new"
    /\ shots \in ShotsValues
    /\ construction_type \in ConstructionType
    /\ args \in ArgsValues
    /\ args.salient_type \in SalientTypesFor(construction_type)
    /\ examples = <<>>
    /\ current_examples = <<>>
    /\ salient_category = "unset"
    /\ salient_task_key = <<>>
    /\ instruction_text = NoInstruction
    /\ examples_label_randomizer = FALSE
    /\ examples_order_randomizer = FALSE
    /\ salient_task_label = FALSE
    /\ active_task_label = FALSE
    /\ salient_task = "unset"
    /\ randomize_tasks = FALSE
    /\ raised = "none"
    /\ call = NoCall

\* Prompt.__init__ up to the dispatch on salient_type
PromptInit ==
    /\ pc = "new"
    /\ IF get_instruction_from_construction_type(construction_type) = "ValueError"
       THEN /\ raised' = "ValueError"
            /\ pc' = "raised"
       ELSE /\ raised' = raised
            /\ pc' = IF Directed THEN "given_distribution" ELSE "without_salient_type"
    /\ UNCHANGED <<shots, construction_type, args, examples, current_examples,
                   salient_category, salient_task_key, instruction_text,
                   examples_label_randomizer, examples_order_randomizer,
                   salient_task_label, active_task_label, salient_task,
                   randomize_tasks, call>>

-----------------------------------------------------------------------------
(* Path "undirected": make_examples_without_salient_type *)

\* the draws of the two randomizers and the choice of the generator
WithoutSalientTypeSetup ==
    /\ pc = "without_salient_type"
    /\ examples_label_randomizer' \in BOOLEAN
    /\ examples_order_randomizer' \in BOOLEAN
    /\ pc' = IF args.include_ambiguous_examples THEN "context" ELSE "query"
    /\ UNCHANGED <<shots, construction_type, args, examples, current_examples,
                   salient_category, salient_task_key, instruction_text,
                   salient_task_label, active_task_label, salient_task,
                   randomize_tasks, raised, call>>

\* context examples that both carry the same active label
context_label_same(i, label_randomizer) == label_randomizer

context_label(i, label_randomizer) ==
    IF i % 2 = 0 THEN label_randomizer ELSE ~label_randomizer

context_example(gen, i, label_randomizer, order_randomizer) ==
    IF order_randomizer
    THEN generate_example(gen, TRUE, TRUE, context_label(i, label_randomizer), None)
    ELSE generate_example(gen, FALSE, FALSE, context_label(i, label_randomizer), None)

\* one iteration of "for i in range(2)"
AppendContextExample ==
    /\ pc = "context"
    /\ LET i == Len(current_examples)
           example == context_example(generator_obj, i, examples_label_randomizer,
                                      examples_order_randomizer)
       IN  /\ examples' = Append(examples, example)
           /\ current_examples' = Append(current_examples, example)
           /\ examples_order_randomizer' = ~examples_order_randomizer
           /\ pc' = IF i + 1 < 2 THEN "context" ELSE "query"
    /\ UNCHANGED <<shots, construction_type, args, salient_category,
                   salient_task_key, instruction_text, examples_label_randomizer,
                   salient_task_label, active_task_label, salient_task,
                   randomize_tasks, raised, call>>

\* a query whose two feature labels agree
query_example_same(gen, query_randomizer, query_label_randomizer) ==
    generate_example(gen, query_randomizer, query_randomizer,
                     query_label_randomizer, None)

query_example(gen, query_randomizer, query_label_randomizer) ==
    generate_example(gen, query_randomizer, ~query_randomizer,
                     query_label_randomizer, None)

AppendQuery ==
    /\ pc = "query"
    /\ \E query_randomizer \in BOOLEAN, query_label_randomizer \in BOOLEAN :
         LET query == query_example(generator_obj, query_randomizer,
                                    query_label_randomizer)
         IN  /\ examples' = Append(examples, query)
             /\ current_examples' = Append(current_examples, query)
    /\ pc' = "resolve"
    /\ UNCHANGED <<shots, construction_type, args, salient_category,
                   salient_task_key, instruction_text, examples_label_randomizer,
                   examples_order_randomizer, salient_task_label,
                   active_task_label, salient_task, randomize_tasks, raised, call>>

\* resolves the salient category, stamps the examples generated so far
\* (self.examples holds the same objects) and renders the instruction
ResolveWithoutSalientType ==
    /\ pc = "resolve"
    /\ \E choice \in {"task_a", "task_b"} :
         LET key == salient_task_key_of(current_examples,
                        args.include_ambiguous_examples, None, choice)
             cat == get_salient_category_from_example_set(generator_obj,
                        current_examples, args.include_ambiguous_examples,
                        None, choice)
         IN  IF cat \in {"AssertionError", "KeyError"}
             THEN /\ raised' = cat
                  /\ pc' = "raised"
                  /\ UNCHANGED <<salient_category, salient_task_key, examples,
                                 current_examples, instruction_text>>
             ELSE /\ salient_category' = cat
                  /\ salient_task_key' = key
                  /\ current_examples' =
                        set_salient_task_cur_examples(CategoryParent[cat],
                                                      current_examples)
                  /\ examples' =
                        set_salient_task_cur_examples(CategoryParent[cat], examples)
                  /\ instruction_text' =
                        IF args.needs_instruction
                        THEN generate_instruction(cat, args.needs_informative)
                        ELSE instruction_text
                  /\ raised' = raised
                  /\ pc' = IF shots - 1 > 0 THEN "mirror" ELSE "done"
    /\ UNCHANGED <<shots, construction_type, args, examples_label_randomizer,
                   examples_order_randomizer, salient_task_label,
                   active_task_label, salient_task, randomize_tasks, call>>

\* a count that leaves out the query
n_before_mirroring_without_query == IF args.include_ambiguous_examples THEN 2 ELSE 0

\* the examples generated before the loop "for _ in range(self.shots - 1)"
n_before_mirroring == IF args.include_ambiguous_examples THEN 3 ELSE 1

\* one iteration of "for _ in range(self.shots - 1)"
AppendMirroredExample ==
    /\ pc = "mirror"
    /\ \E mirror_example \in BOOLEAN :
         LET example == generate_example_given_salient(generator_obj,
                            current_examples[Len(current_examples)], mirror_example)
         IN  /\ examples' = Append(examples, example)
             /\ current_examples' = Append(current_examples, example)
    /\ pc' = IF Len(current_examples) + 1 - n_before_mirroring < shots - 1
             THEN "mirror" ELSE "done"
    /\ UNCHANGED <<shots, construction_type, args, salient_category,
                   salient_task_key, instruction_text, examples_label_randomizer,
                   examples_order_randomizer, salient_task_label,
                   active_task_label, salient_task, randomize_tasks, raised, call>>

-----------------------------------------------------------------------------
(* Path "directed": make_given_distribution_examples *)

\* the two weights exchanged
examples_distribution_swapped(prob_of_ambiguous) ==
    (IF prob_of_ambiguous > 0 THEN {"disambiguating"} ELSE {}) \cup
    (IF 100 - prob_of_ambiguous > 0 THEN {"ambiguous"} ELSE {})

examples_distribution(prob_of_ambiguous) ==
    (IF prob_of_ambiguous > 0 THEN {"ambiguous"} ELSE {}) \cup
    (IF 100 - prob_of_ambiguous > 0 THEN {"disambiguating"} ELSE {})

\* the draws of the two labels, the classification of salient_type and,
\* in finetuning-control mode, the single draw of randomize_tasks
GivenDistributionSetup ==
    /\ pc = "given_distribution"
    /\ salient_task_label' \in BOOLEAN
    /\ active_task_label' \in BOOLEAN
    /\ IF args.salient_type \in possible_task_a
       THEN /\ salient_task' = "task_a"
            /\ raised' = raised
            /\ pc' = "generate"
       ELSE IF args.salient_type \in possible_task_b
       THEN /\ salient_task' = "task_b"
            /\ raised' = raised
            /\ pc' = "generate"
       ELSE /\ salient_task' = salient_task
            /\ raised' = "KeyError"
            /\ pc' = "raised"
    /\ IF args.for_finetuning /\ args.finetuning_control
          /\ args.salient_type \in possible_task_a \cup possible_task_b
       THEN randomize_tasks' \in BOOLEAN
       ELSE randomize_tasks' = randomize_tasks
    /\ UNCHANGED <<shots, construction_type, args, examples, current_examples,
                   salient_category, salient_task_key, instruction_text,
                   examples_label_randomizer, examples_order_randomizer, call>>

\* the templates with the active label left as drawn in the branches that
\* negate the salient label
given_distribution_example_unflipped(gen, example_type, randomize, task, s, a, sal) ==
    IF example_type = "disambiguating"
    THEN IF randomize /\ task = "task_a" THEN generate_example(gen, s, ~s, a, sal)
         ELSE IF ~randomize /\ task = "task_a" THEN generate_example(gen, ~s, s, a, sal)
         ELSE IF randomize /\ task = "task_b" THEN generate_example(gen, ~s, s, a, sal)
         ELSE generate_example(gen, s, ~s, a, sal)
    ELSE IF randomize THEN generate_example(gen, s, s, a, sal)
         ELSE generate_example(gen, ~s, ~s, a, sal)

given_distribution_example(gen, example_type, randomize, task, s, a, sal) ==
    IF example_type = "disambiguating"
    THEN IF randomize /\ task = "task_a" THEN generate_example(gen, s, ~s, a, sal)
         ELSE IF ~randomize /\ task = "task_a" THEN generate_example(gen, ~s, s, ~a, sal)
         ELSE IF randomize /\ task = "task_b" THEN generate_example(gen, ~s, s, a, sal)
         ELSE generate_example(gen, s, ~s, ~a, sal)
    ELSE IF randomize THEN generate_example(gen, s, s, a, sal)
         ELSE generate_example(gen, ~s, ~s, ~a, sal)

\* an iteration that draws the coin whatever the finetuning flags are
GenerateGivenDistributionExample_redraw ==
    /\ pc = "generate"
    /\ \E coin \in BOOLEAN, example_type \in examples_distribution(args.prob_of_ambiguous) :
         LET example == given_distribution_example(generator_obj, example_type,
                            coin, salient_task, salient_task_label,
                            active_task_label, args.salient_type)
         IN  /\ randomize_tasks' = coin
             /\ examples' = Append(examples, example)
             /\ current_examples' = Append(current_examples, example)
    /\ pc' = IF Len(current_examples) + 1 < shots THEN "generate" ELSE "resolve_given"
    /\ UNCHANGED <<shots, construction_type, args, salient_category,
                   salient_task_key, instruction_text, examples_label_randomizer,
                   examples_order_randomizer, salient_task_label,
                   active_task_label, salient_task, raised, call>>

\* one iteration of "for _ in range(self.shots)"
GenerateGivenDistributionExample ==
    /\ pc = "generate"
    /\ \E coin \in BOOLEAN, example_type \in examples_distribution(args.prob_of_ambiguous) :
         LET randomize == IF ~args.for_finetuning \/ ~args.finetuning_control
                          THEN coin ELSE randomize_tasks
             example == given_distribution_example(generator_obj, example_type,
                            randomize, salient_task, salient_task_label,
                            active_task_label, args.salient_type)
         IN  /\ randomize_tasks' = randomize
             /\ examples' = Append(examples, example)
             /\ current_examples' = Append(current_examples, example)
    /\ pc' = IF Len(current_examples) + 1 < shots THEN "generate" ELSE "resolve_given"
    /\ UNCHANGED <<shots, construction_type, args, salient_category,
                   salient_task_key, instruction_text, examples_label_randomizer,
                   examples_order_randomizer, salient_task_label,
                   active_task_label, salient_task, raised, call>>

\* get_salient_category_from_example_set is called with
\* include_ambiguous_examples=True (prompt.py:315)
ResolveGivenDistribution ==
    /\ pc = "resolve_given"
    /\ LET key == salient_task_key_of(current_examples, TRUE, salient_task, "task_a")
           cat == get_salient_category_from_example_set(generator_obj,
                      current_examples, TRUE, salient_task, "task_a")
       IN  IF cat \in {"AssertionError", "KeyError"}
           THEN /\ raised' = cat
                /\ pc' = "raised"
                /\ UNCHANGED <<salient_category, salient_task_key, instruction_text>>
           ELSE /\ salient_category' = cat
                /\ salient_task_key' = key
                /\ instruction_text' =
                      IF args.needs_instruction
                      THEN generate_instruction(cat, args.needs_informative)
                      ELSE instruction_text
                /\ raised' = raised
                /\ pc' = "done"
    /\ UNCHANGED <<shots, construction_type, args, examples, current_examples,
                   examples_label_randomizer, examples_order_randomizer,
                   salient_task_label, active_task_label, salient_task,
                   randomize_tasks, call>>

-----------------------------------------------------------------------------

Next ==
    \/ PromptInit
    \/ WithoutSalientTypeSetup
    \/ AppendContextExample
    \/ AppendQuery
    \/ ResolveWithoutSalientType
    \/ AppendMirroredExample
    \/ GivenDistributionSetup
    \/ GenerateGivenDistributionExample
    \/ ResolveGivenDistribution

Spec == Init /\ [][Next]_vars

-----------------------------------------------------------------------------
(* Direct calls of single methods, on arguments of the caller's choosing *)

LabelledExamples(gen, tags) ==
    {generate_example(gen, a, b, l, t) : a \in BOOLEAN, b \in BOOLEAN,
                                         l \in BOOLEAN, t \in tags}

MaxExamples == 3

ExampleLists ==
    UNION {[1..n -> LabelledExamples("SubjectLocationGenerator", {None})] :
           n \in 0..MaxExamples}

ObtainCalls ==
    [fn : {"obtain_salient_task_key"}, current_examples : ExampleLists,
     returned : {FALSE}, ret : {<<>>}]

MirrorCalls ==
    UNION {[fn : {"generate_example_given_salient"}, gen : {g},
            test_example : LabelledExamples(g, ConstructionType \cup {None}),
            returned : {FALSE}, ret : {<<>>}] : g \in Generators}

MaxOptions == 3

Range(f) == {f[x] : x \in DOMAIN f}

MultipleChoiceCalls ==
    [fn : {"generate_multiple_choice_categories"},
     salient_category : Range(label_list) \cup {"unset", None},
     num_options : 1..MaxOptions,
     returned : {FALSE}, raised : {"none"}, ret : {<<>>}]

CreateCalls ==
    [fn : {"create_salient_task_key"},
     current_examples : ExampleLists \ {<<>>},
     salient_task : {"task_a", "task_b", None},
     rets : {<<>>}]

\* the keys a caller may hand to a generator: the four of the map and keys
\* whose feature is another name or None
KeyInputs == {"task_a", "task_b", "subject", None} \X BOOLEAN

TaskKeyCalls ==
    [fn : {"get_salient_category_from_task_key"},
     gen : Generators,
     task_keys : KeyInputs \X KeyInputs,
     rets : {<<>>}]

\* no Prompt is under construction while a method is called directly
NoPrompt ==
    /\ pc = "idle"
    /\ shots = 1
    /\ construction_type = "subject_location"
    /\ args = [needs_instruction |-> FALSE, needs_informative |-> FALSE,
               include_ambiguous_examples |-> FALSE, prob_of_ambiguous |-> 0,
               for_finetuning |-> FALSE, finetuning_control |-> FALSE,
               salient_type |-> None]
    /\ examples = <<>>
    /\ current_examples = <<>>
    /\ salient_category = "unset"
    /\ salient_task_key = <<>>
    /\ instruction_text = NoInstruction
    /\ examples_label_randomizer = FALSE
    /\ examples_order_randomizer = FALSE
    /\ salient_task_label = FALSE
    /\ active_task_label = FALSE
    /\ salient_task = "unset"
    /\ randomize_tasks = FALSE
    /\ raised = "none"

InitCalls ==
    /\ NoPrompt
    /\ call \in ObtainCalls \cup MirrorCalls \cup MultipleChoiceCalls
                \cup CreateCalls \cup TaskKeyCalls

prompt_vars ==
    <<pc, shots, construction_type, args, examples, current_examples,
      salient_category, salient_task_key, instruction_text,
      examples_label_randomizer, examples_order_randomizer,
      salient_task_label, active_task_label, salient_task, randomize_tasks,
      raised>>

ObtainSalientTaskKeyCall ==
    /\ call.fn = "obtain_salient_task_key"
    /\ ~call.returned
    /\ call' = [call EXCEPT !.returned = TRUE,
                            !.ret = obtain_salient_task_key(call.current_examples)]
    /\ UNCHANGED prompt_vars

GenerateExampleGivenSalientCall ==
    /\ call.fn = "generate_example_given_salient"
    /\ ~call.returned
    /\ \E mirror_example \in BOOLEAN :
         call' = [call EXCEPT !.returned = TRUE,
                              !.ret = generate_example_given_salient(call.gen,
                                          call.test_example, mirror_example)]
    /\ UNCHANGED prompt_vars

GenerateMultipleChoiceCategoriesCall ==
    /\ call.fn = "generate_multiple_choice_categories"
    /\ ~call.returned
    /\ \E draws \in ChoicesDraws(call.num_options),
          perm \in ShuffleOrders(call.num_options) :
         LET out == generate_multiple_choice_categories(call.salient_category,
                        call.num_options, draws, perm)
         IN  call' = [call EXCEPT !.returned = TRUE, !.raised = out.raised,
                                  !.ret = out.ret]
    /\ UNCHANGED prompt_vars

\* the same call made a first and a second time, each with its own draw
CreateSalientTaskKeyCall ==
    /\ call.fn = "create_salient_task_key"
    /\ Len(call.rets) < 2
    /\ \E choice \in {"task_a", "task_b"} :
         call' = [call EXCEPT !.rets =
                     Append(@, create_salient_task_key(call.current_examples,
                                    call.salient_task, choice))]
    /\ UNCHANGED prompt_vars

\* two lookups on one generator, one after the other
GetSalientCategoryFromTaskKeyCall ==
    /\ call.fn = "get_salient_category_from_task_key"
    /\ Len(call.rets) < 2
    /\ call' = [call EXCEPT !.rets =
                    Append(@, get_salient_category_from_task_key(call.gen,
                                   call.task_keys[Len(call.rets) + 1]))]
    /\ UNCHANGED prompt_vars

NextCalls ==
    \/ ObtainSalientTaskKeyCall
    \/ GenerateExampleGivenSalientCall
    \/ GenerateMultipleChoiceCategoriesCall
    \/ CreateSalientTaskKeyCall
    \/ GetSalientCategoryFromTaskKeyCall

SpecCalls == InitCalls /\ [][NextCalls]_vars

-----------------------------------------------------------------------------
(* Dataset driver: DatasetGenerator.generate_examples *)

MaxKinds == 2

MaxQueries == 2

\* the values of the members construction_types.py declares
ConstructionTypeList ==
    {"subject_location", "propn_negation", "religious_pronoun", "location",
     "subject", "negation", "pronoun", "religious", "proper_noun"}

\* the strings a configuration may request: known kinds and one that is not
KindStrings == {"subject_location", "subject", "foo"}

\* how Prompt.__init__ ends for the driver's arguments: the exception it
\* raises, or "none"
prompt_outcome(ct, salient_type, n_shots) ==
    IF get_instruction_from_construction_type(ct) = "ValueError" THEN "ValueError"
    ELSE IF salient_type = None THEN "none"
    ELSE IF salient_type \notin possible_task_a \cup possible_task_b THEN "KeyError"
    ELSE IF n_shots < 3 THEN "AssertionError"
    ELSE "none"

DriverCalls ==
    [fn : {"generate_examples"},
     construction_types : UNION {[1..n -> KindStrings] : n \in 0..MaxKinds},
     n_queries : 0..MaxQueries,
     n_shots : ShotsValues,
     n_multiple_choices : {0, 4},
     no_salient_task : BOOLEAN,
     at : {1},
     i : {0},
     prompt : {"unbound"},
     examples : {<<>>},
     pc : {"for_construct_type"},
     raised : {"none"}]

InitDriver ==
    /\ NoPrompt
    /\ call \in DriverCalls

\* the head of "for construct_type in self.config.construction_types": a
\* string with no mapping is skipped with a warning
DriverNextConstructType ==
    /\ call.fn = "generate_examples"
    /\ call.pc = "for_construct_type"
    /\ call' =
          IF call.at > Len(call.construction_types)
          THEN [call EXCEPT !.pc = "after_loop"]
          ELSE IF call.construction_types[call.at] \in ConstructionTypeList
          THEN [call EXCEPT !.pc = "for_i", !.i = 0]
          ELSE [call EXCEPT !.at = @ + 1]
    /\ UNCHANGED prompt_vars

\* one iteration of "for i in range(n_queries)": a Prompt is constructed,
\* formatted and appended to the dataset
DriverQuery ==
    /\ call.fn = "generate_examples"
    /\ call.pc = "for_i"
    /\ LET construction_type_ == call.construction_types[call.at]
           salient_task_ == IF call.no_salient_task THEN None
                            ELSE construction_type_
           outcome == prompt_outcome(construction_type_, salient_task_, call.n_shots)
           formatted_pair == [construction_type |-> construction_type_,
                              multiple_choice_category |-> call.n_multiple_choices > 0]
       IN  call' =
              IF call.i >= call.n_queries
              THEN [call EXCEPT !.pc = "for_construct_type", !.at = @ + 1]
              ELSE IF outcome # "none"
              THEN [call EXCEPT !.pc = "raised", !.raised = outcome]
              ELSE [call EXCEPT !.prompt = construction_type_,
                                !.examples = Append(@, formatted_pair),
                                !.i = @ + 1]
    /\ UNCHANGED prompt_vars

\* the statements after the loops read the local "prompt", which is bound
\* only if some iteration constructed a Prompt
DriverAssistancePrompts ==
    /\ call.fn = "generate_examples"
    /\ call.pc = "after_loop"
    /\ call' =
          IF call.prompt = "unbound"
          THEN [call EXCEPT !.pc = "raised", !.raised = "UnboundLocalError"]
          ELSE [call EXCEPT !.pc = "done"]
    /\ UNCHANGED prompt_vars

NextDriver ==
    \/ DriverNextConstructType
    \/ DriverQuery
    \/ DriverAssistancePrompts

SpecDriver == InitDriver /\ [][NextDriver]_vars

-----------------------------------------------------------------------------
(* Properties *)

label_of(e, feature) ==
    IF feature = "task_a" THEN e.task_a_label ELSE e.task_b_label

labels(e) == <<e.task_a_label, e.task_b_label, e.active_task_label>>

explains(key, e) == e.active_task_label <=> (label_of(e, key[1]) = key[2])

polarity_for(query, feature) ==
    IF query.active_task_label THEN label_of(query, feature)
    ELSE ~label_of(query, feature)

\* the undirected path with context examples, once the resolver has run
InferredWithoutSalientType ==
    /\ ~Directed
    /\ args.include_ambiguous_examples
    /\ pc \in {"mirror", "done"}

\* C1: on the undirected path the key returned by obtain_salient_task_key
\* for (context0, context1, query) has the polarity of the query's own label
\* for the returned feature when the query's active label is true, and the
\* negation of that label when it is false.
C1_InferPolarity ==
    InferredWithoutSalientType =>
        /\ salient_task_key[1] \in {"task_a", "task_b"}
        /\ salient_task_key[2] =
              polarity_for(current_examples[3], salient_task_key[1])

C1_Witness ==
    /\ InferredWithoutSalientType
    /\ ~current_examples[3].active_task_label
    /\ salient_task_key = <<"task_b", TRUE>>

\* C2: for every triple in which exactly one of the two context examples
\* shares the query's active label, that example is the anchor and
\* obtain_salient_task_key returns task_a if and only if the query's
\* task_a_label equals the anchor's, otherwise task_b.
C2_AnchorFeature ==
    (/\ call.fn = "obtain_salient_task_key"
     /\ call.returned
     /\ Len(call.current_examples) = 3) =>
        LET first == call.current_examples[1]
            second == call.current_examples[2]
            query == call.current_examples[3]
            anchor == IF first.active_task_label = query.active_task_label
                      THEN first ELSE second
        IN  (first.active_task_label # second.active_task_label) =>
                /\ anchor.active_task_label = query.active_task_label
                /\ call.ret[1] \in {"task_a", "task_b"}
                /\ (call.ret[1] = "task_a") <=>
                       (query.task_a_label = anchor.task_a_label)

C2_Witness ==
    /\ call.fn = "obtain_salient_task_key"
    /\ call.returned
    /\ Len(call.current_examples) = 3
    /\ call.current_examples[1].active_task_label #
           call.current_examples[3].active_task_label
    /\ call.current_examples[2].active_task_label =
           call.current_examples[3].active_task_label
    /\ call.current_examples[1].task_a_label = call.current_examples[3].task_a_label
    /\ call.current_examples[2].task_a_label # call.current_examples[3].task_a_label
    /\ call.ret[1] = "task_b"

\* C3: when the undirected path with context examples has completed, the
\* resolved (feature, polarity) explains every example of the prompt: an
\* example's active label is true exactly when its label for the resolved
\* feature equals the resolved polarity.
C3_GroundTruthExplainsPrompt ==
    (InferredWithoutSalientType /\ pc = "done") =>
        \A i \in 1..Len(examples) : explains(salient_task_key, examples[i])

C3_Witness ==
    /\ InferredWithoutSalientType
    /\ pc = "done"
    /\ Len(examples) = 5
    /\ labels(examples[4]) # labels(examples[3])
    /\ labels(examples[5]) = labels(examples[3])

\* C4 (as claimed): on the directed path the salient category comes from the
\* construct-from-explicit-target mode applied to the final example: the
\* feature is the target's and the polarity follows the final example.
C4_DirectedUsesExplicitTarget ==
    (Directed /\ pc = "done") =>
        /\ salient_task_key[1] = salient_task
        /\ salient_task_key =
              create_salient_task_key(current_examples, salient_task, salient_task)
        /\ salient_category =
              get_salient_category_from_task_key(generator_obj, salient_task_key)

\* C5 (as claimed): on the directed path the resolved (feature, polarity)
\* explains the active label of every example of the completed prompt.
C5_DirectedActiveDerivable ==
    (Directed /\ pc = "done") =>
        \A i \in 1..Len(examples) : explains(salient_task_key, examples[i])

\* C6 (as claimed): on the directed path with salient_type = negation and
\* prob_of_ambiguous = 0, a completed construction resolves a category whose
\* label is negation or affirmation.
C6_NegationTargetResolvesNegation ==
    (/\ Directed
     /\ pc = "done"
     /\ args.salient_type = "negation"
     /\ construction_type \in ProperNounNegationFamily
     /\ args.prob_of_ambiguous = 0) =>
        salient_category \in {"negation", "affirmation"}

\* C7 (as claimed): in every completed prompt, on either path, each
\* example's salient_task equals the parent feature of the resolved salient
\* category.
C7_ExamplesAgreeWithCategory ==
    (pc = "done") =>
        \A i \in 1..Len(examples) :
            examples[i].salient_task = CategoryParent[salient_category]

\* C8: after construction completes every example of the prompt carries the
\* same salient_task, which is not None; on the undirected path this
\* includes the mirrored examples appended after the stamping.
C8_StampingPropagation ==
    (pc = "done") =>
        \A i \in 1..Len(examples) :
            /\ examples[i].salient_task # None
            /\ examples[i].salient_task = examples[1].salient_task

C8_Witness ==
    /\ pc = "done"
    /\ ~Directed
    /\ Len(examples) > n_before_mirroring + 1
    /\ examples[1].salient_task = "location"

\* C9 (as claimed): without context examples and without an explicit
\* salient_type, construction raises and resolves no salient category.
C9_NoContextFailsFast ==
    (~Directed /\ ~args.include_ambiguous_examples) =>
        /\ salient_category = "unset"
        /\ pc # "done"

\* C9 (amended): without context examples and without an explicit
\* salient_type, construction of a prompt of a known construction kind does
\* not raise: the feature is drawn from {task_a, task_b}, the polarity
\* follows the query as in the construct-from-explicit-target mode, and the
\* category of that key is resolved.
C9_NoContextChoosesRandomly ==
    (/\ ~Directed
     /\ ~args.include_ambiguous_examples
     /\ get_instruction_from_construction_type(construction_type) # "ValueError") =>
        /\ raised = "none"
        /\ pc \in {"mirror", "done"} =>
              /\ salient_task_key[1] \in {"task_a", "task_b"}
              /\ salient_task_key[2] =
                    polarity_for(current_examples[1], salient_task_key[1])
              /\ salient_category = salient_cat_map(generator_obj)[salient_task_key]

C9_Witness ==
    /\ ~Directed
    /\ ~args.include_ambiguous_examples
    /\ pc = "done"
    /\ raised = "none"
    /\ salient_task_key = <<"task_b", FALSE>>
    /\ ~current_examples[1].active_task_label
    /\ salient_category = "negation"

\* C10: every result r of generate_example_given_salient(e) carries either
\* e's three labels or the negation of all three, and e's salient_task.
C10_MirroringConsistency ==
    (call.fn = "generate_example_given_salient" /\ call.returned) =>
        LET e == call.test_example
            r == call.ret
        IN  /\ \/ labels(r) = labels(e)
               \/ labels(r) = <<~e.task_a_label, ~e.task_b_label,
                                ~e.active_task_label>>
            /\ r.salient_task = e.salient_task

C10_Witness ==
    /\ call.fn = "generate_example_given_salient"
    /\ call.returned
    /\ call.test_example.salient_task = "pronoun"
    /\ labels(call.test_example) = <<TRUE, FALSE, TRUE>>
    /\ labels(call.ret) = <<FALSE, TRUE, FALSE>>

\* C11: for a resolved salient category and a requested option count n
\* (n >= 1), generate_multiple_choice_categories(n) renders exactly n lines
\* numbered 1..n, the salient label is on exactly one of them and every other
\* line holds a catalog label different from the salient one.
C11_DistractorValidity ==
    (/\ call.fn = "generate_multiple_choice_categories"
     /\ call.returned
     /\ call.salient_category \in Range(label_list)) =>
        /\ call.raised = "none"
        /\ Len(call.ret) = call.num_options
        /\ \A i \in 1..Len(call.ret) :
              /\ call.ret[i].number = i
              /\ call.ret[i].label \in Range(label_list)
        /\ Cardinality({i \in 1..Len(call.ret) :
                           call.ret[i].label = call.salient_category}) = 1

C11_Witness ==
    /\ call.fn = "generate_multiple_choice_categories"
    /\ call.returned
    /\ call.salient_category = "human_subject"
    /\ call.num_options = 3
    /\ call.ret[1].label = "negation"
    /\ call.ret[2].label = "human_subject"
    /\ call.ret[3].label = "negation"

\* C12: generate_multiple_choice_categories called while the salient
\* category is not resolved ends with an error and returns no text.
C12_UnresolvedCategoryRaises ==
    (/\ call.fn = "generate_multiple_choice_categories"
     /\ call.returned
     /\ call.salient_category \notin Range(label_list)) =>
        /\ call.raised = "AttributeError"
        /\ call.ret = <<>>

C12_Witness ==
    /\ call.fn = "generate_multiple_choice_categories"
    /\ call.returned
    /\ call.salient_category = "unset"
    /\ call.num_options = 3
    /\ call.raised = "AttributeError"

\* C13 (as claimed): directed-path construction with a single-feature target
\* succeeds for every shots >= 1: it ends with shots examples and a resolved
\* salient category and raises nothing.
C13_DirectedSucceedsForAnyShots ==
    (/\ Directed
     /\ args.salient_type \in possible_task_a \cup possible_task_b
     /\ pc \in {"done", "raised"}) =>
        /\ pc = "done"
        /\ raised = "none"
        /\ Len(examples) = shots
        /\ salient_category # "unset"

\* C14 (as claimed): obtain_salient_task_key raises an assertion error when
\* both context examples, or neither, share the query's active label.
C14_InvalidTripleRejected ==
    (/\ call.fn = "obtain_salient_task_key"
     /\ call.returned
     /\ Len(call.current_examples) = 3
     /\ call.current_examples[1].active_task_label =
            call.current_examples[2].active_task_label) =>
        call.ret = AssertionError

\* C14 (amended): obtain_salient_task_key does not check the triple: when
\* both context examples share the query's active label it anchors on the
\* first, when neither does it anchors on the second, and it returns the
\* (feature, polarity) pair computed from that anchor.
C14_InvalidTripleStillResolved ==
    (/\ call.fn = "obtain_salient_task_key"
     /\ call.returned
     /\ Len(call.current_examples) = 3
     /\ call.current_examples[1].active_task_label =
            call.current_examples[2].active_task_label) =>
        LET first == call.current_examples[1]
            second == call.current_examples[2]
            query == call.current_examples[3]
            anchor == IF first.active_task_label = query.active_task_label
                      THEN first ELSE second
        IN  /\ call.ret \in TaskKeys
            /\ (call.ret[1] = "task_a") <=>
                   (query.task_a_label = anchor.task_a_label)
            /\ call.ret[2] = polarity_for(query, call.ret[1])

C14_Witness ==
    /\ call.fn = "obtain_salient_task_key"
    /\ call.returned
    /\ Len(call.current_examples) = 3
    /\ labels(call.current_examples[1]) = <<TRUE, TRUE, TRUE>>
    /\ labels(call.current_examples[2]) = <<FALSE, FALSE, TRUE>>
    /\ labels(call.current_examples[3]) = <<FALSE, TRUE, FALSE>>
    /\ call.ret = <<"task_a", TRUE>>

\* C15: on the undirected path with context examples exactly one of the two
\* context examples has the query's active label.
C15_ExactlyOneContextMatchesQuery ==
    (/\ ~Directed
     /\ args.include_ambiguous_examples
     /\ Len(current_examples) >= 3) =>
        (current_examples[1].active_task_label =
             current_examples[3].active_task_label)
        # (current_examples[2].active_task_label =
               current_examples[3].active_task_label)

C15_Witness ==
    /\ ~Directed
    /\ args.include_ambiguous_examples
    /\ pc = "resolve"
    /\ Len(current_examples) = 3
    /\ current_examples[2].active_task_label = current_examples[3].active_task_label
    /\ current_examples[1].active_task_label # current_examples[3].active_task_label

\* C16: obtain_salient_task_key called with fewer than 3 examples fails its
\* assertion and returns no key.
C16_FewerThanThreeExamplesAsserts ==
    (/\ call.fn = "obtain_salient_task_key"
     /\ call.returned
     /\ Len(call.current_examples) < 3) =>
        call.ret = AssertionError

C16_Witness ==
    /\ call.fn = "obtain_salient_task_key"
    /\ call.returned
    /\ Len(call.current_examples) = 2
    /\ call.ret = AssertionError

\* C17: for an explicit feature f, create_salient_task_key returns (f, p)
\* with p the query's label for f when the query's active label is true and
\* its negation otherwise, and a second call on the same inputs returns the
\* same pair.
C17_ExplicitTargetDeterministic ==
    (call.fn = "create_salient_task_key" /\ call.salient_task # None) =>
        LET query == call.current_examples[Len(call.current_examples)]
        IN  /\ \A i \in 1..Len(call.rets) :
                  call.rets[i] =
                      <<call.salient_task, polarity_for(query, call.salient_task)>>
            /\ Len(call.rets) = 2 => call.rets[1] = call.rets[2]

C17_Witness ==
    /\ call.fn = "create_salient_task_key"
    /\ call.salient_task = "task_b"
    /\ Len(call.current_examples) = 2
    /\ labels(call.current_examples[2]) = <<TRUE, TRUE, FALSE>>
    /\ call.rets = << <<"task_b", FALSE>>, <<"task_b", FALSE>> >>

\* C18: on the directed path an ambiguous example (task_a_label equal to
\* task_b_label) is generated only when prob_of_ambiguous > 0 and a
\* disambiguating one only when prob_of_ambiguous < 100; with
\* prob_of_ambiguous = 0 every example is disambiguating.
C18_TemplateFollowsProbability ==
    Directed =>
        \A i \in 1..Len(examples) :
            /\ (examples[i].task_a_label = examples[i].task_b_label) =>
                   args.prob_of_ambiguous > 0
            /\ (examples[i].task_a_label # examples[i].task_b_label) =>
                   args.prob_of_ambiguous < 100

C18_Witness ==
    /\ Directed
    /\ args.prob_of_ambiguous = 0
    /\ pc = "done"
    /\ Len(examples) = 3
    /\ \A i \in 1..3 : examples[i].task_a_label # examples[i].task_b_label

\* C19: on the undirected path each of the two context examples has equal
\* task_a and task_b labels and the query has opposite ones.
C19_UndirectedExampleShapes ==
    ~Directed =>
        IF args.include_ambiguous_examples
        THEN /\ \A i \in 1..Len(examples) :
                    i <= 2 => examples[i].task_a_label = examples[i].task_b_label
             /\ Len(examples) >= 3 =>
                    examples[3].task_a_label # examples[3].task_b_label
        ELSE Len(examples) >= 1 =>
                    examples[1].task_a_label # examples[1].task_b_label

C19_Witness ==
    /\ ~Directed
    /\ args.include_ambiguous_examples
    /\ pc = "done"
    /\ labels(examples[1]) = <<FALSE, FALSE, TRUE>>
    /\ labels(examples[2]) = <<TRUE, TRUE, FALSE>>
    /\ labels(examples[3]) = <<FALSE, TRUE, TRUE>>

\* C20: for construction kind subject_location on the undirected path with
\* context examples the resolved salient category is human_subject,
\* animal_subject, urban_location or natural_location.
C20_SubjectLocationCategories ==
    (/\ ~Directed
     /\ args.include_ambiguous_examples
     /\ construction_type = "subject_location"
     /\ pc \in {"mirror", "done"}) =>
        salient_category \in {"human_subject", "animal_subject",
                              "urban_location", "natural_location"}

C20_Witness ==
    /\ ~Directed
    /\ args.include_ambiguous_examples
    /\ construction_type = "subject_location"
    /\ shots = 3
    /\ pc = "done"
    /\ salient_category = "natural_location"

\* C21: get_salient_category_from_task_key of each generator returns a
\* category for exactly the four keys (task_a, True), (task_a, False),
\* (task_b, True), (task_b, False), distinct keys giving distinct
\* categories, and raises KeyError for any other key.
C21_TaskKeyLookup ==
    call.fn = "get_salient_category_from_task_key" =>
        /\ \A i \in 1..Len(call.rets) :
              IF call.task_keys[i] \in TaskKeys
              THEN call.rets[i] \in DOMAIN CategoryParent
              ELSE call.rets[i] = "KeyError"
        /\ (/\ Len(call.rets) = 2
            /\ call.task_keys[1] \in TaskKeys
            /\ call.task_keys[2] \in TaskKeys
            /\ call.task_keys[1] # call.task_keys[2]) =>
                call.rets[1] # call.rets[2]

C21_Witness ==
    /\ call.fn = "get_salient_category_from_task_key"
    /\ call.gen = "ProperNounNegationGenerator"
    /\ call.task_keys = << <<"task_a", FALSE>>, <<None, TRUE>> >>
    /\ call.rets = <<"human_subject", "KeyError">>

\* C22 (as claimed): on the undirected path the active labels of the two
\* context examples are randomized independently: once the first context
\* example is appended, the second can still get either active label, so
\* all four combinations are reachable.
C22_ContextLabelsIndependent ==
    (/\ ~Directed
     /\ pc = "context"
     /\ Len(current_examples) = 1) =>
        \A b \in BOOLEAN :
            ENABLED (/\ AppendContextExample
                     /\ current_examples'[2].active_task_label = b)

\* C22 (amended): the two context examples always carry opposite active
\* labels: the first gets examples_label_randomizer and the second its
\* negation, so only (true, false) and (false, true) occur.
C22_ContextLabelsOpposite ==
    (/\ ~Directed
     /\ args.include_ambiguous_examples
     /\ Len(examples) >= 2) =>
        /\ examples[1].active_task_label = examples_label_randomizer
        /\ examples[2].active_task_label = ~examples_label_randomizer

C22_Witness ==
    /\ ~Directed
    /\ args.include_ambiguous_examples
    /\ pc = "query"
    /\ Len(examples) = 2
    /\ ~examples[1].active_task_label
    /\ examples[2].active_task_label

\* the two single-feature kinds of the prompt's construction kind
own_feature_kinds ==
    (possible_task_a \cup possible_task_b) \cap
        (IF construction_type \in SubjectLocationFamily THEN SubjectLocationFamily
         ELSE IF construction_type \in ProperNounNegationFamily
              THEN ProperNounNegationFamily
         ELSE ReligiousPronounFamily)

\* C23 (as claimed): the category resolved for (feature, polarity) has as
\* parent the construction kind's feature kind for that feature (task_a:
\* subject, religious, propn; task_b: location, pronoun, negation), so the
\* salient_task stamped on the examples names one of the prompt's own two
\* feature kinds.
C23_ParentIsOwnFeatureKind ==
    (~Directed /\ pc \in {"mirror", "done"}) =>
        LET parent == CategoryParent[salient_category]
        IN  /\ parent \in own_feature_kinds
            /\ (salient_task_key[1] = "task_a") <=> (parent \in possible_task_a)
            /\ \A i \in 1..Len(examples) : examples[i].salient_task = parent

\* C24: on the directed path, with s = salient_task_label and
\* a = active_task_label, every generated example has active label a exactly
\* when its label for the target feature is s; so the target feature with
\* polarity (s if a else not s) explains every example's active label.
C24_DirectedLabelsFollowTarget ==
    (Directed /\ salient_task \in {"task_a", "task_b"}) =>
        \A i \in 1..Len(examples) :
            /\ (examples[i].active_task_label = active_task_label) <=>
                   (label_of(examples[i], salient_task) = salient_task_label)
            /\ explains(<<salient_task, IF active_task_label
                                        THEN salient_task_label
                                        ELSE ~salient_task_label>>, examples[i])

C24_Witness ==
    /\ Directed
    /\ salient_task = "task_b"
    /\ salient_task_label
    /\ ~active_task_label
    /\ Len(examples) = 3
    /\ labels(examples[1]) = <<FALSE, TRUE, FALSE>>
    /\ labels(examples[2]) = <<TRUE, FALSE, TRUE>>
    /\ labels(examples[3]) = <<FALSE, FALSE, TRUE>>

\* the query's label triple, negated throughout
negated_labels(e) == <<~e.task_a_label, ~e.task_b_label, ~e.active_task_label>>

\* C25: every example appended after the query on the undirected path has
\* the query's (task_a_label, task_b_label, active_task_label) triple or its
\* complete negation, however many are appended.
C25_MirroredExamplesFollowQuery ==
    ~Directed =>
        \A i \in 1..Len(examples) :
            i > n_before_mirroring =>
                \/ labels(examples[i]) = labels(examples[n_before_mirroring])
                \/ labels(examples[i]) = negated_labels(examples[n_before_mirroring])

C25_Witness ==
    /\ ~Directed
    /\ args.include_ambiguous_examples
    /\ pc = "done"
    /\ Len(examples) = 5
    /\ labels(examples[4]) = negated_labels(examples[3])
    /\ labels(examples[5]) = labels(examples[3])

\* C26: a completed undirected prompt with context examples holds exactly
\* shots + 2 examples, in the order context0, context1, query, then
\* shots - 1 mirrored examples (shots examples when context is omitted); a
\* completed directed prompt holds exactly shots examples; examples are only
\* ever appended, never removed or reordered.
C26_ExampleCountAndOrder ==
    /\ [](/\ pc = "done" =>
                Len(examples) = IF ~Directed /\ args.include_ambiguous_examples
                                THEN shots + 2 ELSE shots
          /\ (~Directed /\ args.include_ambiguous_examples) =>
                /\ pc = "context" => Len(examples) < 2
                /\ pc = "query" => Len(examples) = 2
                /\ pc = "mirror" => Len(examples) \in 3..(shots + 1)
          /\ (~Directed /\ ~args.include_ambiguous_examples) =>
                /\ pc = "query" => Len(examples) = 0
                /\ pc = "mirror" => Len(examples) \in 1..(shots - 1)
          /\ Directed =>
                /\ pc = "generate" => Len(examples) < shots
                /\ pc = "resolve_given" => Len(examples) = shots)
    /\ [][\/ examples' = examples
          \/ /\ Len(examples') = Len(examples) + 1
             /\ SubSeq(examples', 1, Len(examples)) = examples
          \/ /\ pc = "resolve"
             /\ Len(examples') = Len(examples)
             /\ \A i \in 1..Len(examples) : labels(examples'[i]) = labels(examples[i])]_vars

C26_Witness ==
    /\ ~Directed
    /\ args.include_ambiguous_examples
    /\ shots = 3
    /\ pc = "done"
    /\ Len(examples) = 5
    /\ examples[1].task_a_label = examples[1].task_b_label
    /\ examples[2].task_a_label = examples[2].task_b_label
    /\ examples[3].task_a_label # examples[3].task_b_label

\* C27: on the directed path, when for_finetuning and finetuning_control are
\* both true the coin randomize_tasks is drawn once per prompt and reused by
\* every example, so all examples share the same active label; in every
\* other flag combination the coin is drawn anew for each example, so the
\* next example can take either active label.
C27_CoinCadence ==
    Directed =>
        IF args.for_finetuning /\ args.finetuning_control
        THEN /\ \A i, j \in 1..Len(examples) :
                    examples[i].active_task_label = examples[j].active_task_label
             /\ pc = "generate" =>
                    ~ENABLED (/\ GenerateGivenDistributionExample
                              /\ randomize_tasks' # randomize_tasks)
        ELSE pc = "generate" =>
                \A b \in BOOLEAN :
                    /\ ENABLED (/\ GenerateGivenDistributionExample
                                /\ randomize_tasks' = b)
                    /\ ENABLED (/\ GenerateGivenDistributionExample
                                /\ examples'[Len(examples')].active_task_label = b)

C27_Witness ==
    /\ Directed
    /\ args.for_finetuning
    /\ args.finetuning_control
    /\ pc = "resolve_given"
    /\ Len(examples) = 3
    /\ examples[1].task_a_label # examples[1].task_b_label
    /\ examples[2].task_a_label = examples[2].task_b_label
    /\ \A i \in 1..3 : examples[i].active_task_label # active_task_label

\* C28: the category a generator returns for (feature, polarity) is the
\* value pool from which its generate_example fills that feature's slot when
\* the feature's label equals polarity, for all three construction kinds,
\* both features and both polarities.
C28_CategoryIsSlotPool ==
    \A i \in 1..Len(examples) :
        /\ get_salient_category_from_task_key(generator_obj,
               <<"task_a", examples[i].task_a_label>>) = examples[i].choice_a
        /\ get_salient_category_from_task_key(generator_obj,
               <<"task_b", examples[i].task_b_label>>) = examples[i].choice_b

C28_Witness ==
    /\ generator_obj = "ReligiousPronounGenerator"
    /\ Len(examples) >= 1
    /\ examples[1].task_a_label
    /\ ~examples[1].task_b_label
    /\ examples[1].choice_a = "religious_leader"
    /\ examples[1].choice_b = "female_pronoun"

\* C29: a directed-path request whose salient_type is not one of the six
\* single-feature kinds (a composite kind such as subject_location) raises
\* KeyError before any example is generated: examples stays empty and no
\* salient category is set.
C29_CompositeTargetRaisesKeyError ==
    (/\ Directed
     /\ args.salient_type \notin
            {"subject", "religious", "propn", "location", "pronoun", "negation"}
     /\ pc \notin {"new", "given_distribution"}
     /\ raised # "ValueError") =>
        /\ pc = "raised"
        /\ raised = "KeyError"
        /\ examples = <<>>
        /\ salient_category = "unset"

C29_Witness ==
    /\ construction_type = "subject_location"
    /\ args.salient_type = "subject_location"
    /\ pc = "raised"
    /\ raised = "KeyError"
    /\ examples = <<>>
    /\ salient_category = "unset"

\* C30 (as claimed): in the dataset driver a construction-kind string with
\* no known mapping is skipped and is not fatal: for a non-empty list of
\* requested kinds and n_queries >= 1, when no Prompt constructor raises,
\* generate_examples completes without error (also when every kind is
\* unknown) and has appended n_queries entries for each requested known kind.
C30_UnknownKindsNotFatal ==
    (/\ call.fn = "generate_examples"
     /\ Len(call.construction_types) >= 1
     /\ call.n_queries >= 1
     /\ call.pc \in {"done", "raised"}
     /\ call.raised \notin {"ValueError", "KeyError", "AssertionError"}) =>
        /\ call.pc = "done"
        /\ call.raised = "none"
        /\ \A k \in ConstructionTypeList :
              Cardinality({j \in 1..Len(call.examples) :
                              call.examples[j].construction_type = k})
              = call.n_queries *
                Cardinality({j \in 1..Len(call.construction_types) :
                                call.construction_types[j] = k})

=============================================================================
